---- MODULE Spec2Model ----
(***************************************************************************)
(* A model of the crossword CSP engine of generate.py (CrosswordCreator):  *)
(* node consistency, AC-3 and backtracking search.                         *)
(*                                                                         *)
(* Words are tuples of letters, so that w[i] of the code is CharAt(w, i).  *)
(* A Python dict is a sequence of <<key, value>> pairs in insertion order. *)
(* A Python set has an arbitrary iteration order: every loop over a set is *)
(* a choice among the permutations of that set.                            *)
(***************************************************************************)
EXTENDS Integers, Sequences, FiniteSets, TLC

(* ------------------------------ bounds --------------------------------- *)

\* at most this many slots of Slots make up a puzzle
MaxVars == 3

\* at most this many words of Universe make up a vocabulary
MaxWords == 3

(* ------------------------- the puzzle (crossword) ---------------------- *)

ACROSS == "across"

DOWN == "down"

\* The slots a puzzle draws its variables from, in a grid of three rows and
\* two columns: A1 is row 0, A2 is row 1, D1 is column 0 (two cells), D2 is
\* column 1 (three cells). Each row crosses each column.
Slots == {"A1", "A2", "D1", "D2"}

\* Variable.i, Variable.j, Variable.direction, Variable.length
VarI(v) == IF v = "A2" THEN 1 ELSE 0

VarJ(v) == IF v = "D2" THEN 1 ELSE 0

VarDirection(v) == IF v \in {"A1", "A2"} THEN ACROSS ELSE DOWN

VarLength(v) == IF v = "D2" THEN 3 ELSE 2

\* The words a vocabulary is drawn from: one is shorter than every slot.
Universe ==
    { <<"a">>, <<"a", "a">>, <<"a", "b">>, <<"b", "a">>,
      <<"a", "b", "a">>, <<"b", "a", "b">> }

\* the cell the k-th letter (from 0) of variable v is written to
CellOf(v, k) ==
    << VarI(v) + (IF VarDirection(v) = DOWN THEN k ELSE 0),
       VarJ(v) + (IF VarDirection(v) = ACROSS THEN k ELSE 0) >>

\* crossword.overlaps[x, y] is None
NoOverlap == << >>

\* crossword.overlaps[x, y]: None, or the offsets (i, j) of the shared cell
Overlaps(x, y) ==
    LET shared == { p \in (0 .. VarLength(x) - 1) \X (0 .. VarLength(y) - 1) :
                        CellOf(x, p[1]) = CellOf(y, p[2]) }
    IN  IF x = y \/ shared = {} THEN NoOverlap ELSE CHOOSE p \in shared : TRUE

\* crossword.neighbors(var), within the puzzle's variables vs
Neighbors(vs, var) == { v \in vs : v # var /\ Overlaps(v, var) # NoOverlap }

(* ------------------------------ helpers -------------------------------- *)

\* the iteration orders of a Python set
Perms(S) ==
    { p \in [1 .. Cardinality(S) -> S] : \A e \in S : \E k \in DOMAIN p : p[k] = e }

\* an index that is out of range
IndexError == "IndexError"

\* word[i] of Python, i from 0
CharAt(word, i) == IF i >= 0 /\ i < Len(word) THEN word[i + 1] ELSE IndexError

\* the keys of a dict
KeySet(a) == { a[k][1] : k \in DOMAIN a }

\* assignment[var] = word: a new key goes last, an old key keeps its place
DictSet(a, var, word) ==
    IF var \in KeySet(a)
    THEN [k \in DOMAIN a |-> IF a[k][1] = var THEN <<var, word>> ELSE a[k]]
    ELSE Append(a, <<var, word>>)

\* assignment.pop(var)
DictPop(a, var) == SelectSeq(a, LAMBDA e : e[1] # var)

\* the return values of backtrack: None, or an assignment
None == [isNone |-> TRUE, value |-> << >>]

Some(a) == [isNone |-> FALSE, value |-> a]

\* the truth value Python gives a return value of backtrack (`if result:`)
Truthy(r) == ~r.isNone /\ Len(r.value) > 0

(* ------------------------------- state --------------------------------- *)

VARIABLES
    variables,   \* crossword.variables
    varorder,    \* the iteration order of the set crossword.variables
    words,       \* crossword.words
    domains,     \* self.domains
    arcs,        \* the worklist of ac3
    returned,    \* the values the calls of ac3 have returned so far
    assignment,  \* the assignment dict of backtrack
    stack,       \* the calls of backtrack that are inside their for loop
    checked,     \* the value of the last call of consistent
    ret,         \* the value of the last return of backtrack
    pc           \* where the run is

vars ==
    << variables, varorder, words, domains, arcs, returned, assignment, stack,
       checked, ret, pc >>

\* CrosswordCreator.__init__ on a puzzle of at most MaxVars slots, MaxWords words
Init ==
    /\ variables \in { S \in SUBSET Slots : Cardinality(S) <= MaxVars }
    /\ varorder \in Perms(variables)
    /\ words \in { W \in SUBSET Universe : Cardinality(W) <= MaxWords }
    /\ domains = [var \in variables |-> words]
    /\ arcs = << >>
    /\ returned = << >>
    /\ assignment = << >>
    /\ stack = << >>
    /\ checked = FALSE
    /\ ret = None
    /\ pc = "start"

(* ----------------------- node and arc consistency ---------------------- *)

\* NodeConsistent that filters nothing
NodeConsistentSkipped(doms) == doms

\* NodeConsistent with `<=` for `==`
NodeConsistentAtMost(doms) ==
    [var \in DOMAIN doms |-> { word \in doms[var] : Len(word) <= VarLength(var) }]

\* the domains enforce_node_consistency leaves
NodeConsistent(doms) ==
    [var \in DOMAIN doms |-> { word \in doms[var] : Len(word) = VarLength(var) }]

EnforceNodeConsistency ==
    /\ pc = "start"
    /\ domains' = NodeConsistent(domains)
    /\ pc' = "node_done"
    /\ UNCHANGED << variables, varorder, words, arcs, returned, assignment, stack,
                    checked, ret >>

\* RemoveSet with `all` for `any`
RemoveSetAll(doms, x, y) ==
    LET overlap == Overlaps(x, y)
    IN  IF overlap = NoOverlap
        THEN {}
        ELSE { x_word \in doms[x] :
                 ~ \A y_word \in doms[y] :
                       CharAt(x_word, overlap[1]) = CharAt(y_word, overlap[2]) }

\* the words revise(x, y) removes from the domain of x
RemoveSet(doms, x, y) ==
    LET overlap == Overlaps(x, y)
    IN  IF overlap = NoOverlap
        THEN {}
        ELSE { x_word \in doms[x] :
                 ~ \E y_word \in doms[y] :
                       CharAt(x_word, overlap[1]) = CharAt(y_word, overlap[2]) }

\* Revise that takes the words out of the domain of y
ReviseY(doms, x, y) == [doms EXCEPT ![y] = doms[y] \ RemoveSet(doms, x, y)]

\* the domains revise(x, y) leaves
Revise(doms, x, y) == [doms EXCEPT ![x] = doms[x] \ RemoveSet(doms, x, y)]

\* the value revise(x, y) returns
Revised(doms, x, y) == RemoveSet(doms, x, y) # {}

\* combinations(s, 2), from the pair of positions (p, q) on
RECURSIVE Combinations2(_, _, _)
Combinations2(s, p, q) ==
    IF p >= Len(s) THEN << >>
    ELSE IF q > Len(s) THEN Combinations2(s, p + 1, p + 2)
    ELSE << <<s[p], s[q]>> >> \o Combinations2(s, p, q + 1)

\* the worklist ac3 builds when arcs is None
InitialArcs(order) == Combinations2(order, 1, 2)

\* Requeue that forgets `neighbors.remove(y)`
RequeueWithY(vs, x, y) ==
    { [k \in DOMAIN order |-> <<order[k], x>>] : order \in Perms(Neighbors(vs, x)) }

\* Requeue that puts no arc
RequeueNone(vs, x, y) == { << >> }

\* the arcs ac3 may put after a revision of x against y, in each order the
\* loop over the set neighbors can take
Requeue(vs, x, y) ==
    { [k \in DOMAIN order |-> <<order[k], x>>] :
        order \in Perms(Neighbors(vs, x) \ {y}) }

\* DomainEmptied without the `not`
DomainNotEmptied(doms, x) == doms[x] # {}

\* `not self.domains[x]`, the test ac3 makes after a revision of x
DomainEmptied(doms, x) == doms[x] = {}

\* AfterGet that leaves the arc in the worklist
AfterPeek(q) == q

\* the worklist after `arcs.get()` has taken its first arc
AfterGet(q) == Tail(q)

\* ac3() is called with arcs = None
Ac3Begin ==
    /\ pc = "node_done"
    /\ arcs' = InitialArcs(varorder)
    /\ pc' = "ac3_loop"
    /\ UNCHANGED << variables, varorder, words, domains, returned, assignment,
                    stack, checked, ret >>

\* one turn of the while loop of ac3
Ac3Step ==
    /\ pc = "ac3_loop"
    /\ arcs # << >>
    /\ LET x == Head(arcs)[1]
           y == Head(arcs)[2]
       IN  /\ domains' = Revise(domains, x, y)
           /\ IF Revised(domains, x, y)
              THEN IF DomainEmptied(domains', x)
                   THEN /\ arcs' = AfterGet(arcs)
                        /\ returned' = Append(returned, FALSE)
                        /\ pc' = "ac3_ret"
                   ELSE /\ \E put \in Requeue(variables, x, y) :
                              arcs' = AfterGet(arcs) \o put
                        /\ UNCHANGED << returned, pc >>
              ELSE /\ arcs' = AfterGet(arcs)
                   /\ UNCHANGED << returned, pc >>
    /\ UNCHANGED << variables, varorder, words, assignment, stack, checked, ret >>

\* the worklist is empty: ac3 returns True
Ac3Done ==
    /\ pc = "ac3_loop"
    /\ arcs = << >>
    /\ returned' = Append(returned, TRUE)
    /\ pc' = "ac3_ret"
    /\ UNCHANGED << variables, varorder, words, domains, arcs, assignment, stack,
                    checked, ret >>

(* ------------------------------- search -------------------------------- *)

\* assignment_complete(assignment)
AssignmentComplete(vs, a) == \A var \in vs : var \in KeySet(a)

\* UniqueAndLength that never adds to encountered_words
RECURSIVE UniqueAndLengthNoAdd(_, _, _)
UniqueAndLengthNoAdd(a, k, encountered_words) ==
    IF k > Len(a) THEN TRUE
    ELSE IF VarLength(a[k][1]) # Len(a[k][2]) \/ a[k][2] \in encountered_words
         THEN FALSE
         ELSE UniqueAndLengthNoAdd(a, k + 1, encountered_words)

\* the first loop of consistent, from the k-th entry of the dict on: every
\* word has its variable's length and was not encountered before
RECURSIVE UniqueAndLength(_, _, _)
UniqueAndLength(a, k, encountered_words) ==
    IF k > Len(a) THEN TRUE
    ELSE IF VarLength(a[k][1]) # Len(a[k][2]) \/ a[k][2] \in encountered_words
         THEN FALSE
         ELSE UniqueAndLength(a, k + 1, encountered_words \cup {a[k][2]})

\* OverlapsAgree over the pairs of neighbouring entries only
OverlapsAgreeAdjacent(a) ==
    \A p, q \in DOMAIN a :
        q = p + 1 =>
            LET overlap == Overlaps(a[p][1], a[q][1])
            IN  \/ overlap = NoOverlap
                \/ CharAt(a[p][2], overlap[1]) = CharAt(a[q][2], overlap[2])

\* the second loop of consistent, over combinations(assignment, 2)
OverlapsAgree(a) ==
    \A p, q \in DOMAIN a :
        p < q =>
            LET overlap == Overlaps(a[p][1], a[q][1])
            IN  \/ overlap = NoOverlap
                \/ CharAt(a[p][2], overlap[1]) = CharAt(a[q][2], overlap[2])

\* consistent(assignment)
Consistent(a) == UniqueAndLength(a, 1, {}) /\ OverlapsAgree(a)

\* GetWordValue that counts the words that fit (`==` for `!=`)
GetWordValueFits(doms, vs, var, a, word) ==
    LET unassigned_neighbors == Neighbors(vs, var) \ KeySet(a)
        fits ==
            { nw \in UNION { {neighbor} \X doms[neighbor] :
                               neighbor \in unassigned_neighbors } :
                CharAt(word, Overlaps(var, nw[1])[1])
                    = CharAt(nw[2], Overlaps(var, nw[1])[2]) }
    IN  Cardinality(fits)

\* getWordValue(word) of order_domain_values(var, assignment)
GetWordValue(doms, vs, var, a, word) ==
    LET unassigned_neighbors == Neighbors(vs, var) \ KeySet(a)
        conflicts ==
            { nw \in UNION { {neighbor} \X doms[neighbor] :
                               neighbor \in unassigned_neighbors } :
                CharAt(word, Overlaps(var, nw[1])[1])
                    # CharAt(nw[2], Overlaps(var, nw[1])[2]) }
    IN  Cardinality(conflicts)

\* the lists order_domain_values(var, assignment) can return: sorted is
\* stable, and list(set) starts from any order of the domain
OrderDomainValues(doms, vs, var, a) ==
    { values \in Perms(doms[var]) :
        \A p, q \in DOMAIN values :
            p < q => GetWordValue(doms, vs, var, a, values[p])
                        <= GetWordValue(doms, vs, var, a, values[q]) }

\* Better that keeps the winner on a tie of the domain sizes
BetterNoDegree(doms, vs, winner, candidate) ==
    IF Cardinality(doms[candidate]) < Cardinality(doms[winner])
    THEN candidate
    ELSE winner

\* one turn of the loop of select_unassigned_variable
Better(doms, vs, winner, candidate) ==
    LET candidate_len == Cardinality(doms[candidate])
        winner_len == Cardinality(doms[winner])
    IN  IF candidate_len < winner_len THEN candidate
        ELSE IF candidate_len = winner_len
             THEN IF Cardinality(Neighbors(vs, candidate))
                        > Cardinality(Neighbors(vs, winner))
                  THEN candidate
                  ELSE winner
             ELSE winner

\* the loop of select_unassigned_variable over the candidates order[k..]
RECURSIVE SelectLoop(_, _, _, _, _)
SelectLoop(doms, vs, order, k, winner) ==
    IF k > Len(order) THEN winner
    ELSE SelectLoop(doms, vs, order, k + 1, Better(doms, vs, winner, order[k]))

\* the variables select_unassigned_variable(assignment) can return: pop()
\* takes any candidate, the loop goes over the others in any order
SelectUnassignedVariable(doms, vs, a) ==
    { SelectLoop(doms, vs, order, 2, order[1]) : order \in Perms(vs \ KeySet(a)) }

\* solve() calls backtrack(dict())
SolveBacktrack ==
    /\ pc = "ac3_ret"
    /\ assignment' = << >>
    /\ pc' = "bt_enter"
    /\ UNCHANGED << variables, varorder, words, domains, arcs, returned, stack,
                    checked, ret >>

\* backtrack: the base case
BacktrackComplete ==
    /\ pc = "bt_enter"
    /\ AssignmentComplete(variables, assignment)
    /\ ret' = Some(assignment)
    /\ pc' = "bt_return"
    /\ UNCHANGED << variables, varorder, words, domains, arcs, returned,
                    assignment, stack, checked >>

\* backtrack: a variable is selected and its values are ordered
BacktrackSelect ==
    /\ pc = "bt_enter"
    /\ ~AssignmentComplete(variables, assignment)
    /\ \E var \in SelectUnassignedVariable(domains, variables, assignment) :
         \E values \in OrderDomainValues(domains, variables, var, assignment) :
            stack' = Append(stack, [var |-> var, values |-> values, idx |-> 1])
    /\ pc' = "bt_loop"
    /\ UNCHANGED << variables, varorder, words, domains, arcs, returned,
                    assignment, checked, ret >>

\* backtrack: the next word is bound and the assignment is checked
BacktrackBind ==
    /\ pc = "bt_loop"
    /\ LET top == stack[Len(stack)]
       IN  /\ top.idx <= Len(top.values)
           /\ assignment' = DictSet(assignment, top.var, top.values[top.idx])
    /\ checked' = Consistent(assignment')
    /\ pc' = "bt_check"
    /\ UNCHANGED << variables, varorder, words, domains, arcs, returned, stack,
                    ret >>

\* BacktrackRecurse without the test of consistent
BacktrackRecurseUnchecked ==
    /\ pc = "bt_check"
    /\ pc' = "bt_enter"
    /\ UNCHANGED << variables, varorder, words, domains, arcs, returned,
                    assignment, stack, checked, ret >>

\* backtrack: the assignment is consistent, the recursive call is made
BacktrackRecurse ==
    /\ pc = "bt_check"
    /\ checked
    /\ pc' = "bt_enter"
    /\ UNCHANGED << variables, varorder, words, domains, arcs, returned,
                    assignment, stack, checked, ret >>

\* Undo that forgets `assignment.pop(var)`
UndoNoPop ==
    LET top == stack[Len(stack)]
    IN  /\ assignment' = assignment
        /\ stack' = [stack EXCEPT ![Len(stack)].idx = top.idx + 1]
        /\ pc' = "bt_loop"

\* Undo that leaves the loop (`return None` inside the for loop)
UndoAndStop ==
    LET top == stack[Len(stack)]
    IN  /\ assignment' = DictPop(assignment, top.var)
        /\ stack' = [stack EXCEPT ![Len(stack)].idx = Len(top.values) + 1]
        /\ pc' = "bt_loop"

\* backtrack: the word is unbound and the loop goes on
Undo ==
    LET top == stack[Len(stack)]
    IN  /\ assignment' = DictPop(assignment, top.var)
        /\ stack' = [stack EXCEPT ![Len(stack)].idx = top.idx + 1]
        /\ pc' = "bt_loop"

\* BacktrackReject that also takes the rejected word out of the domain
BacktrackRejectPrune ==
    /\ pc = "bt_check"
    /\ ~checked
    /\ Undo
    /\ LET top == stack[Len(stack)]
       IN  domains' = [domains EXCEPT ![top.var] = @ \ {top.values[top.idx]}]
    /\ UNCHANGED << variables, varorder, words, arcs, returned, checked, ret >>

\* backtrack: the assignment is inconsistent
BacktrackReject ==
    /\ pc = "bt_check"
    /\ ~checked
    /\ Undo
    /\ UNCHANGED << variables, varorder, words, domains, arcs, returned, checked,
                    ret >>

\* backtrack: the recursive call returned None (or an empty dict)
BacktrackResume ==
    /\ pc = "bt_return"
    /\ stack # << >>
    /\ ~Truthy(ret)
    /\ Undo
    /\ UNCHANGED << variables, varorder, words, domains, arcs, returned, checked,
                    ret >>

\* backtrack: the recursive call returned a result, which is returned
BacktrackPropagate ==
    /\ pc = "bt_return"
    /\ stack # << >>
    /\ Truthy(ret)
    /\ stack' = SubSeq(stack, 1, Len(stack) - 1)
    /\ UNCHANGED << variables, varorder, words, domains, arcs, returned,
                    assignment, checked, ret, pc >>

\* backtrack: the values are exhausted, None is returned
BacktrackExhausted ==
    /\ pc = "bt_loop"
    /\ stack[Len(stack)].idx > Len(stack[Len(stack)].values)
    /\ stack' = SubSeq(stack, 1, Len(stack) - 1)
    /\ ret' = None
    /\ pc' = "bt_return"
    /\ UNCHANGED << variables, varorder, words, domains, arcs, returned,
                    assignment, checked >>

\* solve() returns what backtrack(dict()) returned
SolveReturn ==
    /\ pc = "bt_return"
    /\ stack = << >>
    /\ pc' = "done"
    /\ UNCHANGED << variables, varorder, words, domains, arcs, returned,
                    assignment, stack, checked, ret >>

Next ==
    \/ EnforceNodeConsistency
    \/ Ac3Begin
    \/ Ac3Step
    \/ Ac3Done
    \/ SolveBacktrack
    \/ BacktrackComplete
    \/ BacktrackSelect
    \/ BacktrackBind
    \/ BacktrackRecurse
    \/ BacktrackReject
    \/ BacktrackResume
    \/ BacktrackPropagate
    \/ BacktrackExhausted
    \/ SolveReturn

\* a run of solve()
Spec == Init /\ [][Next]_vars

(* --------------------- a second call of ac3 ---------------------------- *)

\* ac3() is called again right after a call of ac3 that returned True
Ac3Again ==
    /\ pc = "ac3_ret"
    /\ returned = << TRUE >>
    /\ arcs' = InitialArcs(varorder)
    /\ pc' = "ac3_loop"
    /\ UNCHANGED << variables, varorder, words, domains, returned, assignment,
                    stack, checked, ret >>

NextAc3Twice ==
    \/ EnforceNodeConsistency
    \/ Ac3Begin
    \/ Ac3Step
    \/ Ac3Done
    \/ Ac3Again

\* enforce_node_consistency(), ac3() and, if that returned True, ac3() again
SpecAc3Twice == Init /\ [][NextAc3Twice]_vars

(* ------------------------ ac3 runs to its end -------------------------- *)

NextAc3 ==
    \/ EnforceNodeConsistency
    \/ Ac3Begin
    \/ Ac3Step
    \/ Ac3Done

\* enforce_node_consistency() and ac3(): the program is sequential and has
\* no suspension point, so it takes its next step as long as it has one
SpecAc3Live == Init /\ [][NextAc3]_vars /\ WF_vars(NextAc3)

(* ------------------- consistent on any assignment ---------------------- *)

\* the dicts that bind some of the variables vs, in any order, to any words
Assignments(vs) ==
    UNION { { [k \in DOMAIN order |-> <<order[k], ws[k]>>] :
                ws \in [DOMAIN order -> Universe] } :
            order \in UNION { Perms(S) : S \in SUBSET vs } }

InitConsistent ==
    /\ variables \in { S \in SUBSET Slots : Cardinality(S) <= MaxVars }
    /\ varorder = CHOOSE order \in Perms(variables) : TRUE
    /\ words = Universe
    /\ domains = [var \in variables |-> words]
    /\ arcs = << >>
    /\ returned = << >>
    /\ assignment = << >>
    /\ stack = << >>
    /\ checked = FALSE
    /\ ret = None
    /\ pc = "start"

\* consistent(assignment) is called on an assignment of the caller's
CallConsistent ==
    /\ pc = "start"
    /\ assignment' \in Assignments(variables)
    /\ checked' = Consistent(assignment')
    /\ pc' = "consistent_ret"
    /\ UNCHANGED << variables, varorder, words, domains, arcs, returned, stack,
                    ret >>

NextConsistent == CallConsistent

SpecConsistent == InitConsistent /\ [][NextConsistent]_vars

(* --------------------------- character accesses ------------------------ *)

\* word[i] does not raise: an access is a pair <<word, i>>
InRange(access) == access[2] >= 0 /\ access[2] < Len(access[1])

\* the accesses x_word[i] and y_word[j] that revise(x, y) can make: any() runs
\* its generator only if the domain of y has a word, and stops at the first
\* partner, which can be any word of the set
ReviseAccesses(doms, x, y) ==
    LET overlap == Overlaps(x, y)
    IN  IF overlap = NoOverlap \/ doms[x] = {} \/ doms[y] = {}
        THEN {}
        ELSE { <<x_word, overlap[1]>> : x_word \in doms[x] }
                \cup { <<y_word, overlap[2]>> : y_word \in doms[y] }

\* the accesses word[i] and neighbor_word[j] that getWordValue makes for the
\* words of the domain of var
OrderAccesses(doms, vs, var, a) ==
    LET unassigned_neighbors == { n \in Neighbors(vs, var) \ KeySet(a) : doms[n] # {} }
    IN  IF doms[var] = {}
        THEN {}
        ELSE UNION { { <<word, Overlaps(var, n)[1]>> : word \in doms[var] }
                        \cup { <<nw, Overlaps(var, n)[2]>> : nw \in doms[n] } :
                     n \in unassigned_neighbors }

\* the pair of entries (p, q) comes before (p2, q2) in combinations(a, 2)
PairBefore(p, q, p2, q2) == p < p2 \/ (p = p2 /\ q < q2)

\* the entries p < q of the dict a overlap and differ in the shared letter
Mismatch(a, p, q) ==
    LET overlap == Overlaps(a[p][1], a[q][1])
    IN  /\ overlap # NoOverlap
        /\ CharAt(a[p][2], overlap[1]) # CharAt(a[q][2], overlap[2])

\* the accesses assignment[x][i] and assignment[y][j] that consistent makes:
\* none if its first loop returns False, else those of the overlapping pairs
\* up to the first pair that differs
ConsistentAccesses(a) ==
    IF ~UniqueAndLength(a, 1, {})
    THEN {}
    ELSE UNION { { <<a[pq[1]][2], Overlaps(a[pq[1]][1], a[pq[2]][1])[1]>>,
                   <<a[pq[2]][2], Overlaps(a[pq[1]][1], a[pq[2]][1])[2]>> } :
                 pq \in { pq \in (DOMAIN a) \X (DOMAIN a) :
                            /\ pq[1] < pq[2]
                            /\ Overlaps(a[pq[1]][1], a[pq[2]][1]) # NoOverlap
                            /\ \A p2, q2 \in DOMAIN a :
                                  (p2 < q2 /\ PairBefore(p2, q2, pq[1], pq[2]))
                                      => ~Mismatch(a, p2, q2) } }

(* ------------------------------ properties ----------------------------- *)

\* the word the assignment a binds var to
WordOf(a, var) == a[CHOOSE k \in DOMAIN a : a[k][1] = var][2]

\* the consistency predicate: every word has its variable's length, the words
\* are pairwise distinct, every overlapping pair agrees on the shared letter
Satisfies(a) ==
    /\ \A var \in KeySet(a) : Len(WordOf(a, var)) = VarLength(var)
    /\ \A x, y \in KeySet(a) : x # y => WordOf(a, x) # WordOf(a, y)
    /\ \A x, y \in KeySet(a) :
          Overlaps(x, y) # NoOverlap =>
              WordOf(a, x)[Overlaps(x, y)[1] + 1] = WordOf(a, y)[Overlaps(x, y)[2] + 1]

\* the complete consistent assignments that take every word from doms
Solutions(doms) ==
    { f \in [DOMAIN doms -> Universe] :
        /\ \A var \in DOMAIN doms : f[var] \in doms[var]
        /\ \A var \in DOMAIN doms : Len(f[var]) = VarLength(var)
        /\ \A x, y \in DOMAIN doms : x # y => f[x] # f[y]
        /\ \A x, y \in DOMAIN doms :
              Overlaps(x, y) # NoOverlap =>
                  f[x][Overlaps(x, y)[1] + 1] = f[y][Overlaps(x, y)[2] + 1] }

\* every word of every domain has a partner in each overlapping domain
ArcConsistent(doms) ==
    \A x, y \in DOMAIN doms :
        Overlaps(x, y) # NoOverlap =>
            \A w \in doms[x] :
                \E v \in doms[y] :
                    CharAt(w, Overlaps(x, y)[1]) = CharAt(v, Overlaps(x, y)[2])

\* the domains ac3 starts from in solve()
PreAc3Domains == NodeConsistent([var \in variables |-> words])

InSearch == pc \in {"bt_enter", "bt_loop", "bt_check", "bt_return"}

\* C1: solve() returns None or an assignment that binds every variable and
\* satisfies the consistency predicate.
C1_SolveReturnsNoneOrSolution ==
    pc = "done" =>
        \/ ret.isNone
        \/ /\ KeySet(ret.value) = variables
           /\ Satisfies(ret.value)

C1_Witness ==
    /\ pc = "done"
    /\ ~ret.isNone
    /\ Cardinality(KeySet(ret.value)) = 3
    /\ \E x, y \in variables : Overlaps(x, y) # NoOverlap

\* C2: if some complete consistent assignment takes every word from the
\* current domains, backtrack({}) returns a complete assignment, not None.
C2_BacktrackComplete ==
    (pc = "done" /\ Solutions(domains) # {}) =>
        (~ret.isNone /\ KeySet(ret.value) = variables)

\* a solution exists, and a recursive call has just failed
C2_Witness ==
    /\ pc = "bt_return"
    /\ stack # << >>
    /\ ret.isNone
    /\ Solutions(domains) # {}

\* C3: when ac3() returns True, every word of every domain has a partner in
\* the domain of each overlapping variable.
C3_Ac3TrueIsArcConsistent ==
    (pc = "ac3_ret" /\ returned = << TRUE >>) => ArcConsistent(domains)

\* C4: every word of every solution over the domains ac3 starts from is
\* still in its variable's domain while and after ac3 runs.
C4_Ac3KeepsSolutions ==
    pc \in {"ac3_loop", "ac3_ret"} =>
        \A f \in Solutions(PreAc3Domains) : \A var \in variables : f[var] \in domains[var]

\* ac3 has removed words, and a solution exists
C4_Witness ==
    /\ pc = "ac3_ret"
    /\ domains # PreAc3Domains
    /\ Solutions(PreAc3Domains) # {}

\* C5: when the ac3() call of solve() returned False, solve() returns None.
C5_Ac3FalseGivesNone == (pc = "done" /\ returned = << FALSE >>) => ret.isNone

C5_Witness ==
    /\ pc = "done"
    /\ returned = << FALSE >>
    /\ ret.isNone
    /\ \E var \in variables : domains[var] # {}

\* C6: ac3() returns True exactly when no domain is empty as it finishes.
C6_Ac3TrueIffNoEmptyDomain ==
    pc = "ac3_ret" =>
        (returned[Len(returned)] <=> \A var \in variables : domains[var] # {})

\* C7: consistent(assignment) is True exactly when every assigned word has its
\* variable's length, the words are pairwise distinct and every overlapping
\* pair of assigned variables agrees on the shared letter.
C7_ConsistentCorrect ==
    pc \in {"consistent_ret", "bt_check"} => (checked <=> Satisfies(assignment))

\* three variables are bound to words of the right lengths, two of them equal
C7_Witness ==
    /\ pc = "consistent_ret"
    /\ Len(assignment) = 3
    /\ \A k \in DOMAIN assignment : Len(assignment[k][2]) = VarLength(assignment[k][1])
    /\ \E p, q \in DOMAIN assignment : p # q /\ assignment[p][2] = assignment[q][2]
    /\ ~checked

\* C8: once enforce_node_consistency has run, every word of every domain has
\* its variable's length.
C8_NodeConsistencyKept ==
    pc # "start" =>
        \A var \in variables : \A word \in domains[var] : Len(word) = VarLength(var)

\* the search runs on a vocabulary of both lengths, ac3 having removed words
C8_Witness ==
    /\ pc = "bt_check"
    /\ \E w1, w2 \in words : Len(w1) # Len(w2)
    /\ domains # PreAc3Domains
    /\ \A var \in variables : domains[var] # {}

\* C9: no step of the search changes a domain.
C9_SearchKeepsDomains == [][InSearch => domains' = domains]_vars

\* a word has been bound and unbound again
C9_Witness ==
    /\ pc = "bt_loop"
    /\ \E k \in DOMAIN stack : stack[k].idx > 1
    /\ Len(assignment) >= 1

\* C10: a call of ac3() right after a call that returned True removes no word
\* and returns True.
C10_Ac3Idempotent ==
    [][(pc = "ac3_loop" /\ returned = << TRUE >>) =>
          /\ domains' = domains
          /\ (pc' = "ac3_ret" => returned' = << TRUE, TRUE >>)]_vars

\* the second call has returned, the first having removed words
C10_Witness ==
    /\ pc = "ac3_ret"
    /\ returned = << TRUE, TRUE >>
    /\ domains # PreAc3Domains

\* the elements of a sequence
Range(q) == { q[k] : k \in DOMAIN q }

\* C11: the worklist ac3 builds when called without arcs holds both directed
\* arcs (x, y) and (y, x) for every pair of distinct variables.
C11_InitialArcsBothDirections ==
    [][(pc = "node_done" /\ pc' = "ac3_loop") =>
          \A x, y \in variables : x # y => <<x, y>> \in Range(arcs')]_vars

\* the variable selected by select_unassigned_variable in the current call
Selected == stack[Len(stack)].var

Unassigned == variables \ KeySet(assignment)

\* C12: select_unassigned_variable returns an unassigned variable with a
\* smallest domain, and no unassigned variable with a domain of that size has
\* more neighbors, whatever the order of the candidates.
C12_SelectMrvThenDegree ==
    pc = "bt_loop" =>
        /\ Selected \in Unassigned
        /\ \A u \in Unassigned :
              /\ Cardinality(domains[u]) >= Cardinality(domains[Selected])
              /\ Cardinality(domains[u]) = Cardinality(domains[Selected]) =>
                    Cardinality(Neighbors(variables, u))
                        <= Cardinality(Neighbors(variables, Selected))

\* the selected variable beat one with a larger domain and one with an equal
\* domain and fewer neighbors
C12_Witness ==
    /\ pc = "bt_loop"
    /\ \E u \in Unassigned :
          Cardinality(domains[u]) > Cardinality(domains[Selected])
    /\ \E u \in Unassigned :
          /\ Cardinality(domains[u]) = Cardinality(domains[Selected])
          /\ Cardinality(Neighbors(variables, u))
                < Cardinality(Neighbors(variables, Selected))

\* the words of the domain of the unassigned neighbor n that do not fit the
\* word bound to var
Eliminated(var, n, word) ==
    { nw \in domains[n] :
        nw[Overlaps(var, n)[2] + 1] # word[Overlaps(var, n)[1] + 1] }

\* the conflict count of a word: the sum of the eliminated words over ns
RECURSIVE ConflictSum(_, _, _)
ConflictSum(var, ns, word) ==
    IF ns = {} THEN 0
    ELSE LET n == CHOOSE n \in ns : TRUE
         IN  Cardinality(Eliminated(var, n, word)) + ConflictSum(var, ns \ {n}, word)

ConflictCount(var, word) ==
    ConflictSum(var, Neighbors(variables, var) \ KeySet(assignment), word)

\* C13: order_domain_values returns every word of the domain exactly once, in
\* non-decreasing order of the conflict count over the unassigned neighbors.
C13_OrderByConflictCount ==
    pc = "bt_loop" =>
        LET values == stack[Len(stack)].values
        IN  /\ Range(values) = domains[Selected]
            /\ Len(values) = Cardinality(domains[Selected])
            /\ \A p, q \in DOMAIN values :
                  p < q => ConflictCount(Selected, values[p])
                              <= ConflictCount(Selected, values[q])

\* the words differ in their counts; one neighbor is bound, one is not
C13_Witness ==
    /\ pc = "bt_loop"
    /\ \E w1, w2 \in domains[Selected] :
          ConflictCount(Selected, w1) < ConflictCount(Selected, w2)
    /\ Neighbors(variables, Selected) \cap KeySet(assignment) # {}
    /\ Neighbors(variables, Selected) \ KeySet(assignment) # {}

\* the words of the domain of x without a partner in the domain of y
Unsupported(x, y) ==
    { w \in domains[x] :
        ~ \E v \in domains[y] : w[Overlaps(x, y)[1] + 1] = v[Overlaps(x, y)[2] + 1] }

\* C14: revise(x, y) changes nothing and returns False when x and y have no
\* overlap; otherwise it removes from the domain of x exactly the words
\* without a partner in the domain of y, changes no other domain, and returns
\* True exactly when it removed a word.
C14_ReviseContract ==
    [][(pc = "ac3_loop" /\ arcs # << >>) =>
          LET x == Head(arcs)[1]
              y == Head(arcs)[2]
          IN  IF Overlaps(x, y) = NoOverlap
              THEN domains' = domains /\ ~Revised(domains, x, y)
              ELSE /\ domains'[x] = domains[x] \ Unsupported(x, y)
                   /\ \A v \in variables \ {x} : domains'[v] = domains[v]
                   /\ Revised(domains, x, y) <=> domains'[x] # domains[x]]_vars

\* a revise has removed some but not all words of a domain, and the next
\* arc of the worklist joins two variables without overlap
C14_Witness ==
    /\ pc = "ac3_loop"
    /\ \E x \in variables : domains[x] # {} /\ domains[x] # PreAc3Domains[x]
    /\ arcs # << >>
    /\ Overlaps(Head(arcs)[1], Head(arcs)[2]) = NoOverlap

\* the bindings the first n calls of the stack hold: each its own variable,
\* bound to the word its for loop is at
FrameBindings(n) ==
    [k \in 1 .. n |-> <<stack[k].var, stack[k].values[stack[k].idx]>>]

\* C15: a call of backtrack that returns None leaves the assignment as it
\* was on entry (the bindings of its callers), and the assignment never holds
\* more than one binding per call of the recursion.
C15_BindUnbindDiscipline ==
    /\ pc \in {"bt_enter", "bt_check"} => assignment = FrameBindings(Len(stack))
    /\ pc = "bt_loop" => assignment = FrameBindings(Len(stack) - 1)
    /\ (pc = "bt_return" /\ ret.isNone) => assignment = FrameBindings(Len(stack))
    /\ (InSearch /\ ~(pc = "bt_return" /\ ~ret.isNone)) =>
          /\ Len(assignment) <= Len(stack)
          /\ Cardinality(KeySet(assignment)) = Len(assignment)

\* a call two levels down has returned None, after an earlier word was undone
C15_Witness ==
    /\ pc = "bt_return"
    /\ ret.isNone
    /\ Len(stack) >= 2
    /\ \E k \in DOMAIN stack : stack[k].idx > 1

\* the arcs (n, x) of the neighbors n of x other than y
ArcsInto(x, y) ==
    { <<n, x>> : n \in { n \in variables \ {x, y} : Overlaps(n, x) # NoOverlap } }

\* C16: when revise(x, y) removes a word and leaves the domain of x non-empty,
\* ac3 appends exactly the arcs (n, x) of the neighbors n of x other than y,
\* each once; when revise(x, y) removes nothing, it appends nothing.
C16_RequeueNeighborsOfX ==
    [][(pc = "ac3_loop" /\ arcs # << >>) =>
          LET x == Head(arcs)[1]
              y == Head(arcs)[2]
              rest == Tail(arcs)
              appended == SubSeq(arcs', Len(rest) + 1, Len(arcs'))
          IN  /\ SubSeq(arcs', 1, Len(rest)) = rest
              /\ (domains'[x] # domains[x] /\ domains'[x] # {}) =>
                    /\ Range(appended) = ArcsInto(x, y)
                    /\ Len(appended) = Cardinality(ArcsInto(x, y))
              /\ domains'[x] = domains[x] => appended = << >>]_vars

\* the worklist holds an arc that was put back: it is not among the arcs
\* ac3 started from
C16_Witness ==
    /\ pc = "ac3_loop"
    /\ \E k \in DOMAIN arcs : arcs[k] \notin Range(InitialArcs(varorder))

\* C17: ac3 terminates: once in its loop it returns, because no turn of the
\* loop adds a word to a domain and a turn that does not shorten the worklist
\* removes a word.
C17_Ac3Terminates ==
    /\ (pc = "ac3_loop") ~> (pc = "ac3_ret")
    /\ [][(pc = "ac3_loop" /\ arcs # << >>) =>
            /\ \A var \in variables : domains'[var] \subseteq domains[var]
            /\ Len(arcs') >= Len(arcs) => domains' # domains]_vars

\* ac3 has returned True after it removed words from two domains
C17_Witness ==
    /\ pc = "ac3_ret"
    /\ returned = << TRUE >>
    /\ \E x, y \in variables :
          /\ x # y
          /\ domains[x] # PreAc3Domains[x]
          /\ domains[y] # PreAc3Domains[y]

\* C18: every assignment backtrack is called on, from solve() and from
\* backtrack itself, is consistent, and binds every variable to a word of
\* that variable's domain.
C18_BacktrackCalledOnConsistent ==
    pc = "bt_enter" =>
        /\ Consistent(assignment)
        /\ \A k \in DOMAIN assignment : assignment[k][2] \in domains[assignment[k][1]]

\* a recursive call on two bindings, made after another word was rejected
C18_Witness ==
    /\ pc = "bt_enter"
    /\ Len(assignment) >= 2
    /\ \E k \in DOMAIN stack : stack[k].idx > 1

\* C19: during solve() every character access of revise, order_domain_values
\* and consistent is within the word.
C19_IndexSafety ==
    /\ (pc = "ac3_loop" /\ arcs # << >>) =>
          \A access \in ReviseAccesses(domains, Head(arcs)[1], Head(arcs)[2]) :
              InRange(access)
    /\ pc = "bt_loop" =>
          \A access \in OrderAccesses(domains, variables, Selected, assignment) :
              InRange(access)
    /\ pc = "bt_check" =>
          \A access \in ConsistentAccesses(assignment) : InRange(access)

\* consistent has compared letters, in a puzzle whose vocabulary has a word
\* shorter than every slot
C19_Witness ==
    /\ pc = "bt_check"
    /\ ConsistentAccesses(assignment) # {}
    /\ << "a" >> \in words
    /\ domains # PreAc3Domains

====
